---- MODULE Spec2Model ----
(***************************************************************************)
(* MC-VQE (quantum/plugins/algorithms/mc-vqe/mc-vqe.cpp).                  *)
(*                                                                         *)
(* Spec        : MC_VQE::execute, both overloads: the optimizer calling    *)
(*               the averaged-energy objective, the best-so-far diagonal,  *)
(*               the interference stage and the diagonalization.           *)
(* SpecCircuit : MC_VQE::initialize storing nChromophores and isCyclic,     *)
(*               MC_VQE::preProcessing's neighbour list and                *)
(*               MC_VQE::entanglerCircuit, for a range of nChromophores    *)
(*               and both topologies.                                      *)
(* SpecSetup   : MC_VQE::initialize as one call (required and optional     *)
(*               keys, the members it sets, its preProcessing: the data    *)
(*               file, the coupling loop, the Hamiltonian terms and the    *)
(*               CIS matrix) and MC_VQE::statePreparationCircuit.          *)
(*                                                                         *)
(* Numbers.  Energies are doubles in the code; here they are integers.     *)
(* An average (a sum divided by nStates) is kept as the exact fraction     *)
(* <<numerator, denominator>>, and an off-diagonal matrix entry            *)
(* (plusTerm - minusTerm) / sqrt(2) is kept in units of 1/sqrt(2), i.e. as *)
(* the integer plusTerm - minusTerm.  Floating-point rounding is outside   *)
(* the model.  In SpecSetup a double computed by preProcessing is kept as  *)
(* the list of its summands, each a coefficient times a symbolic twoBodyH  *)
(* value that records the two dipoles, the distance and whether the        *)
(* distance was zero (the value is then NaN).                              *)
(***************************************************************************)
EXTENDS Integers, Sequences, FiniteSets, TLC

\* ------------------------------------------------------------------ bounds
\* largest number of reference states (nStates) explored
MaxStates == 3
\* the backend returns the energy -MaxEnergy or MaxEnergy: averages below,
\* equal to and above the initial 0.0 all occur, and so do equal averages
\* with different per-state energies
MaxEnergy == 1
\* the optimizer calls the objective at most MaxCalls times
MaxCalls == 2
\* largest nChromophores explored by SpecCircuit
MaxN == 6

Energies == {0 - MaxEnergy, MaxEnergy}
\* the parameter vectors the optimizer may try (abstract identities)
Params == {"x1", "x2"}
NoParams == "none"

VARIABLES
  \* ---- MC_VQE members read by execute
  nStates, doInterference, gradientStrategy,
  \* ---- which overload runs, and where it is
  overload, pc,
  \* ---- locals of execute / of the objective lambda
  x, state, diagonal, averageEnergy, oldAverageEnergy, entangledHamiltonian,
  result, stateA, stateB,
  \* ---- history: backend calls, objective calls, snapshots
  evals, interfEvals, written, nCalls, lastReturn, decreasing, recorded,
  \* ---- SpecCircuit: members set by initialize, preProcessing's neighbour
  \* ---- list, the last circuit entanglerCircuit returned
  nChromophores, isCyclic, cpc, pairs, entangler,
  \* ---- SpecSetup: the other members set by initialize, what the last
  \* ---- preProcessing built, how the last initialize call ended, and the
  \* ---- last circuit statePreparationCircuit returned
  optimizer, accelerator, dataPath, observable, CISGateAngles, CISMatrix, E,
  given, outcome, trace, statePrep

execVars == <<nStates, doInterference, gradientStrategy, overload, pc, x, state,
              diagonal, averageEnergy, oldAverageEnergy, entangledHamiltonian,
              result, stateA, stateB, evals, interfEvals, written, nCalls,
              lastReturn, decreasing, recorded>>
circVars == <<nChromophores, isCyclic, cpc, pairs, entangler>>
setupVars == <<optimizer, accelerator, dataPath, observable, CISGateAngles,
               CISMatrix, E, given, outcome, trace, statePrep>>
vars == <<execVars, circVars, setupVars>>

\* ------------------------------------------------------------ arithmetic
\* a / b < c / d for fractions with positive denominators
RatLess(a, b) == a[1] * b[2] < b[1] * a[2]
RatLeq(a, b) == a[1] * b[2] <= b[1] * a[2]

RECURSIVE SumTo(_, _)
\* f[0] + ... + f[n-1]
SumTo(f, n) == IF n = 0 THEN 0 ELSE f[n - 1] + SumTo(f, n - 1)

States == 0..(nStates - 1)

\* Eigen::MatrixXd::diagonal() = v
SetDiagonal(M, v) ==
  [p \in DOMAIN M |-> IF p[1] = p[2] THEN v[p[1]] ELSE M[p]]
Diag(M) == [s \in States |-> M[<<s, s>>]]

\* vqeWrapper(observable, kernel, x): one backend energy evaluation; the
\* log records which circuit was evaluated with which parameters.
vqeWrapper(log, kernel, params) ==
  Append(log, [kernel |-> kernel, x |-> params])

\* ======================================================================
\* MC_VQE::execute
\* ======================================================================

\* Eigen::MatrixXd entangledHamiltonian(nStates, nStates); setZero()
ZeroMatrix(n) == [p \in (0..(n - 1)) \X (0..(n - 1)) |-> 0]

\* double oldAverageEnergy = 0.0
InitialOldAverageEnergy == <<0, 1>>

\* the state in which execute finds the object, for either overload
InitExecute ==
  /\ nStates \in 1..MaxStates
  /\ doInterference \in BOOLEAN
  /\ gradientStrategy \in BOOLEAN
  /\ overload \in {"optimize", "fixed"}
  /\ pc = IF overload = "optimize" THEN "optimize" ELSE "fixed"
  /\ x \in IF overload = "optimize" THEN {NoParams} ELSE Params
  /\ state = 0
  \* Eigen::VectorXd diagonal(nStates): every entry is written by the
  \* objective before it is read
  /\ diagonal = [s \in 0..(nStates - 1) |-> 0]
  /\ averageEnergy = 0
  /\ oldAverageEnergy = InitialOldAverageEnergy
  /\ entangledHamiltonian = ZeroMatrix(nStates)
  /\ result = NoParams
  /\ stateA = 0
  /\ stateB = 1
  /\ evals = <<>>
  /\ interfEvals = <<>>
  /\ written = {}
  /\ nCalls = 0
  /\ lastReturn = <<0, 1>>
  /\ decreasing = TRUE
  /\ recorded = {}

\* initialize and the circuit builders are not running; nStates is at most
\* nChromophores + 1 (the default, which the n-states option lowers)
CircuitIdle ==
  /\ nChromophores = MaxStates - 1
  /\ isCyclic = FALSE
  /\ cpc = "idle"
  /\ pairs = <<>>
  /\ entangler = <<>>

\* what preProcessing did during the last initialize call (history)
NoTrace ==
  [opened |-> FALSE, errorReported |-> FALSE, parseAttempted |-> FALSE,
   parsed |-> 0, outOfRange |-> FALSE, zeroDistance |-> FALSE,
   built |-> FALSE, writes |-> <<>>]

\* the algorithm object before its first initialize call
SetupIdle ==
  /\ optimizer = "none"
  /\ accelerator = "none"
  /\ dataPath = ""
  /\ observable = <<>>
  /\ CISGateAngles = [rows |-> 0, cols |-> 0, computed |-> FALSE]
  /\ CISMatrix = <<>>
  /\ E = <<>>
  /\ given = {}
  /\ outcome = "none"
  /\ trace = NoTrace
  /\ statePrep = <<>>

Init == InitExecute /\ CircuitIdle /\ SetupIdle

\* for (stateB = stateA + 1; ...): the first stateB of row a
FirstStateB(a) == a + 1

\* ---- the optimizer (external): calls f any number of times, then returns
\* optimizer->optimize(f) invoking f(x, dx)
OptimizerCall(p) ==
  /\ pc = "optimize"
  /\ nCalls < MaxCalls
  /\ pc' = "objective"
  /\ x' = p
  /\ averageEnergy' = 0
  /\ state' = 0
  /\ evals' = <<>>
  /\ UNCHANGED <<nStates, doInterference, gradientStrategy, overload, diagonal,
                 oldAverageEnergy, entangledHamiltonian, result, stateA, stateB,
                 interfEvals, written, nCalls, lastReturn, decreasing, recorded>>
  /\ UNCHANGED <<circVars, setupVars>>

\* mutant of LowersAverage: <= where the code has <
LowersOrEqualsAverage(avg, old) == RatLeq(avg, old)

\* averageEnergy < oldAverageEnergy
LowersAverage(avg, old) == RatLess(avg, old)

\* mutant of StoreDiagonal: the best average is stored, the diagonal is not
StoreNoDiagonal(M, d) == M

\* entangledHamiltonian.diagonal() = diagonal
StoreDiagonal(M, d) == SetDiagonal(M, d)

\* mutant of AverageOver: the division by nStates is missing
SumNotAveraged(sum, n) == <<sum, 1>>

\* averageEnergy /= nStates
AverageOver(sum, n) == <<sum, n>>

\* the executions of one state: the energy evaluation and, with a gradient
\* strategy, accelerator->execute(tmpBuffer, gradFsToExec)
StateExecutions(log, s, params) ==
  LET e == vqeWrapper(log, <<"cis", s>>, params)
  IN IF gradientStrategy
       THEN Append(e, [kernel |-> <<"gradient", s>>, x |-> params])
       ELSE e

\* one iteration of the objective's loop over states
ObjectiveState(energy) ==
  /\ pc = "objective"
  /\ state < nStates
  /\ evals' = StateExecutions(evals, state, x)
  /\ diagonal' = [diagonal EXCEPT ![state] = energy]
  /\ averageEnergy' = averageEnergy + energy
  /\ state' = state + 1
  /\ UNCHANGED <<nStates, doInterference, gradientStrategy, overload, pc, x,
                 oldAverageEnergy, entangledHamiltonian, result, stateA, stateB,
                 interfEvals, written, nCalls, lastReturn, decreasing, recorded>>
  /\ UNCHANGED <<circVars, setupVars>>

\* after the loop: average, best-so-far update, return averageEnergy
ObjectiveReturn ==
  /\ pc = "objective"
  /\ state = nStates
  /\ LET avg == AverageOver(averageEnergy, nStates)
     IN /\ IF LowersAverage(avg, oldAverageEnergy)
             THEN /\ oldAverageEnergy' = avg
                  /\ entangledHamiltonian' =
                       StoreDiagonal(entangledHamiltonian, diagonal)
                  /\ recorded' = recorded \cup {avg}
             ELSE UNCHANGED <<oldAverageEnergy, entangledHamiltonian, recorded>>
        /\ lastReturn' = avg
        /\ decreasing' = (decreasing /\ (nCalls = 0 \/ RatLess(avg, lastReturn)))
  /\ nCalls' = nCalls + 1
  /\ pc' = "optimize"
  /\ UNCHANGED <<nStates, doInterference, gradientStrategy, overload, x, state,
                 diagonal, averageEnergy, result, stateA, stateB, evals,
                 interfEvals, written>>
  /\ UNCHANGED <<circVars, setupVars>>

\* auto result = optimizer->optimize(f); if (doInterference) ...
OptimizerReturn(p) ==
  /\ pc = "optimize"
  /\ result' = p
  /\ pc' = IF doInterference THEN "interference" ELSE "done"
  /\ stateA' = 0
  /\ stateB' = FirstStateB(0)
  /\ UNCHANGED <<nStates, doInterference, gradientStrategy, overload, x, state,
                 diagonal, averageEnergy, oldAverageEnergy, entangledHamiltonian,
                 evals, interfEvals, written, nCalls, lastReturn, decreasing, recorded>>
  /\ UNCHANGED <<circVars, setupVars>>

\* ---- execute(buffer, x): one iteration of the loop over states
FixedState(energy) ==
  /\ pc = "fixed"
  /\ state < nStates
  /\ evals' = vqeWrapper(evals, <<"cis", state>>, x)
  /\ entangledHamiltonian' =
       [entangledHamiltonian EXCEPT ![<<state, state>>] = energy]
  /\ averageEnergy' = averageEnergy + energy
  /\ state' = state + 1
  /\ UNCHANGED <<nStates, doInterference, gradientStrategy, overload, pc, x,
                 diagonal, oldAverageEnergy, result, stateA, stateB,
                 interfEvals, written, nCalls, lastReturn, decreasing, recorded>>
  /\ UNCHANGED <<circVars, setupVars>>

\* execute(buffer, x): after the loop, if (doInterference) ... else return {}
FixedLoopEnd ==
  /\ pc = "fixed"
  /\ state = nStates
  /\ lastReturn' = AverageOver(averageEnergy, nStates)
  /\ pc' = IF doInterference THEN "interference" ELSE "done"
  /\ stateA' = 0
  /\ stateB' = FirstStateB(0)
  /\ UNCHANGED <<nStates, doInterference, gradientStrategy, overload, x, state,
                 diagonal, averageEnergy, oldAverageEnergy, entangledHamiltonian,
                 result, evals, interfEvals, written, nCalls, decreasing, recorded>>
  /\ UNCHANGED <<circVars, setupVars>>

\* ---- the interference stage
\* auto optimizedEntangler = result.second (execute(buffer, x) passes x)
OptimizedEntangler == IF overload = "optimize" THEN result ELSE x

\* entangledHamiltonian(stateA, stateB) = (plusTerm - minusTerm) / sqrt(2)
SetEntry(M, a, b, plusTerm, minusTerm) ==
  [M EXCEPT ![<<a, b>>] = plusTerm - minusTerm]

\* mutant of MirrorEntry: entry (b, a) is not written
NoMirrorEntry(M, a, b) == M

\* entangledHamiltonian(stateB, stateA) = entangledHamiltonian(stateA, stateB)
MirrorEntry(M, a, b) == [M EXCEPT ![<<b, a>>] = M[<<a, b>>]]

\* mutant of NextPair: the inner loop stops after its first iteration
NextRow(a, b) == <<a + 1, FirstStateB(a + 1)>>

\* the loop indices after the body ran for (a, b)
NextPair(a, b) ==
  IF b + 1 < nStates THEN <<a, b + 1>> ELSE <<a + 1, FirstStateB(a + 1)>>

\* the two evaluations of one pair, plusTerm first
PairEvaluations(log, a, b, params) ==
  vqeWrapper(vqeWrapper(log, <<"plus", a, b>>, params),
             <<"minus", a, b>>, params)

\* one iteration of the pair loop
InterferencePair(plusTerm, minusTerm) ==
  /\ pc = "interference"
  /\ stateA < nStates - 1
  /\ stateB < nStates
  /\ interfEvals' = PairEvaluations(interfEvals, stateA, stateB,
                                    OptimizedEntangler)
  /\ entangledHamiltonian' =
       MirrorEntry(SetEntry(entangledHamiltonian, stateA, stateB,
                            plusTerm, minusTerm), stateA, stateB)
  /\ written' = written \cup {<<stateA, stateB>>, <<stateB, stateA>>}
  /\ stateA' = NextPair(stateA, stateB)[1]
  /\ stateB' = NextPair(stateA, stateB)[2]
  /\ UNCHANGED <<nStates, doInterference, gradientStrategy, overload, pc, x,
                 state, diagonal, averageEnergy, oldAverageEnergy, result,
                 evals, nCalls, lastReturn, decreasing, recorded>>
  /\ UNCHANGED <<circVars, setupVars>>

\* the pair loop is over: SelfAdjointEigenSolver(entangledHamiltonian)
Diagonalize ==
  /\ pc = "interference"
  /\ ~(stateA < nStates - 1)
  /\ pc' = "done"
  /\ UNCHANGED <<nStates, doInterference, gradientStrategy, overload, x, state,
                 diagonal, averageEnergy, oldAverageEnergy, entangledHamiltonian,
                 result, stateA, stateB, evals, interfEvals, written, nCalls,
                 lastReturn, decreasing, recorded>>
  /\ UNCHANGED <<circVars, setupVars>>

Next ==
  \/ \E p \in Params : OptimizerCall(p)
  \/ \E e \in Energies : ObjectiveState(e)
  \/ ObjectiveReturn
  \/ \E p \in Params : OptimizerReturn(p)
  \/ \E e \in Energies : FixedState(e)
  \/ FixedLoopEnd
  \/ \E plusTerm, minusTerm \in Energies : InterferencePair(plusTerm, minusTerm)
  \/ Diagonalize

Spec == Init /\ [][Next]_vars

\* ======================================================================
\* MC_VQE::preProcessing (neighbour list) and MC_VQE::entanglerCircuit
\* ======================================================================

\* parameters of one entangling block (mc-vqe.hpp)
NPARAMSENTANGLER == 4

\* pairs[A] of preProcessing, for site A of n sites
NeighborList(site, n, cyclic) ==
  IF site = 0 /\ cyclic THEN <<site + 1, n - 1>>
  ELSE IF site = n - 1 THEN <<site - 1, 0>>
  ELSE <<site - 1, site + 1>>

\* std::vector<std::vector<int>> pairs(nChromophores), filled for every A
NeighborPairs(n, cyclic) == [site \in 0..(n - 1) |-> NeighborList(site, n, cyclic)]

\* provider->createInstruction("Ry", {q}, {"x" + std::to_string(k)})
Ry(q, k) == [gate |-> "Ry", qubits |-> <<q>>, param |-> k]
\* provider->createInstruction("CNOT", {control, target})
CNOT(control, target) == [gate |-> "CNOT", qubits |-> <<control, target>>]

\* a composite under construction: its instructions, its variables
\* (the index k stands for the variable name "x" + k), and paramCounter
EmptyComposite == [instructions |-> <<>>, variables |-> <<>>, paramCounter |-> 0]

\* addVariable("x" + k); addInstruction(Ry(q, "x" + k))
AddRy(c, q, k) ==
  [c EXCEPT !.instructions = Append(@, Ry(q, k)),
            !.variables = Append(@, k)]

AddCNOT(c, control, target) ==
  [c EXCEPT !.instructions = Append(@, CNOT(control, target))]

\* the entanglerGate lambda: CNOT, Ry(control), Ry(target), CNOT,
\* Ry(control), Ry(target), with parameters k .. k + 3
entanglerGate(c, control, target, k) ==
  LET c1 == AddCNOT(c, control, target)
      c2 == AddRy(c1, control, k)
      c3 == AddRy(c2, target, k + 1)
      c4 == AddCNOT(c3, control, target)
      c5 == AddRy(c4, control, k + 2)
  IN AddRy(c5, target, k + 3)

RECURSIVE FirstRotations(_, _, _)
\* for (i = 0; i < nChromophores; i++): Ry on site i, paramCounter++
FirstRotations(c, site, n) ==
  IF site < n
    THEN FirstRotations(
           [AddRy(c, site, c.paramCounter) EXCEPT !.paramCounter = @ + 1],
           site + 1, n)
    ELSE c

\* mutant of LayerBound: both layers run up to nChromophores
LayerBoundNoOffset(n, lay) == n

\* the bound of the layer loop: i < nChromophores - layer
LayerBound(n, lay) == n - lay

RECURSIVE LayerLoop(_, _, _, _)
\* for (i = layer; i < nChromophores - layer; i += 2):
\*   entanglerGate(i, i + 1, paramCounter); paramCounter += NPARAMSENTANGLER
LayerLoop(c, lay, site, n) ==
  IF site < LayerBound(n, lay)
    THEN LayerLoop(
           [entanglerGate(c, site, site + 1, c.paramCounter)
              EXCEPT !.paramCounter = @ + NPARAMSENTANGLER],
           lay, site + 2, n)
    ELSE c

\* for (int layer : {0, 1})
Layers(c, n) == LayerLoop(LayerLoop(c, 0, 0, n), 1, 1, n)

\* mutant of CyclicGate: control and target exchanged
CyclicGateSwapped(c, n, cyclic) ==
  IF cyclic THEN entanglerGate(c, 0, n - 1, c.paramCounter) ELSE c

\* if (isCyclic) entanglerGate(nChromophores - 1, 0, paramCounter)
CyclicGate(c, n, cyclic) ==
  IF cyclic THEN entanglerGate(c, n - 1, 0, c.paramCounter) ELSE c

\* MC_VQE::entanglerCircuit for nChromophores = n, isCyclic = cyclic
entanglerCircuit(n, cyclic) ==
  CyclicGate(Layers(FirstRotations(EmptyComposite, 0, n), n), n, cyclic)

\* execute is not running
ExecuteIdle ==
  /\ nStates = 1
  /\ doInterference = TRUE
  /\ gradientStrategy = FALSE
  /\ overload = "optimize"
  /\ pc = "idle"
  /\ x = NoParams
  /\ state = 0
  /\ diagonal = <<>>
  /\ averageEnergy = 0
  /\ oldAverageEnergy = InitialOldAverageEnergy
  /\ entangledHamiltonian = <<>>
  /\ result = NoParams
  /\ stateA = 0
  /\ stateB = 0
  /\ evals = <<>>
  /\ interfEvals = <<>>
  /\ written = {}
  /\ nCalls = 0
  /\ lastReturn = <<0, 1>>
  /\ decreasing = TRUE
  /\ recorded = {}

\* initialize has stored nChromophores and isCyclic and is about to call
\* preProcessing; no entangler has been built yet
InitCircuit ==
  /\ nChromophores \in 1..MaxN
  /\ isCyclic \in BOOLEAN
  /\ cpc = "initialize"
  /\ pairs = <<>>
  /\ entangler = <<>>
  /\ ExecuteIdle
  /\ SetupIdle

\* initialize: nChromophores and isCyclic are read from the options
Initialize(n, cyclic) ==
  /\ cpc = "ready"
  /\ nChromophores' = n
  /\ isCyclic' = cyclic
  /\ pairs' = <<>>
  /\ cpc' = "initialize"
  /\ UNCHANGED entangler
  /\ UNCHANGED <<execVars, setupVars>>

\* preProcessing builds the neighbour list (its local pairs)
PreProcessing ==
  /\ cpc = "initialize"
  /\ pairs' = NeighborPairs(nChromophores, isCyclic)
  /\ cpc' = "ready"
  /\ UNCHANGED <<nChromophores, isCyclic, entangler>>
  /\ UNCHANGED <<execVars, setupVars>>

\* auto entangler = entanglerCircuit(), with the members it was built from
EntanglerCircuitCall ==
  /\ cpc = "ready"
  /\ entangler' = [n |-> nChromophores, cyclic |-> isCyclic,
                   circuit |-> entanglerCircuit(nChromophores, isCyclic)]
  /\ UNCHANGED <<nChromophores, isCyclic, cpc, pairs>>
  /\ UNCHANGED <<execVars, setupVars>>

NextCircuit ==
  \/ \E n \in 1..MaxN, cyclic \in BOOLEAN : Initialize(n, cyclic)
  \/ PreProcessing
  \/ EntanglerCircuitCall

SpecCircuit == InitCircuit /\ [][NextCircuit]_vars

\* ======================================================================
\* MC_VQE::statePreparationCircuit
\* ======================================================================

\* provider->createInstruction("H", {target})
H(q) == [gate |-> "H", qubits |-> <<q>>]

\* a numeric gate parameter: angles(i) scaled by halves / 2
\* (2: angles(i), 1: angles(i) / 2, -1: -angles(i) / 2)
Angle(a, halves) == [angle |-> a, halves |-> halves]

RECURSIVE FyGates(_, _, _, _)
\* for (i = 1; i < nChromophores; i++), control = i - 1, target = i:
\*   Ry(-angles(i) / 2), H, CNOT(control, target), H, Ry(angles(i) / 2)
FyGates(c, i, n, angles) ==
  IF i < n
    THEN FyGates(c \o <<Ry(i, Angle(angles[i], 0 - 1)), H(i), CNOT(i - 1, i),
                        H(i), Ry(i, Angle(angles[i], 1))>>,
                 i + 1, n, angles)
    ELSE c

\* mutant of WallFirstControl: the inner loop starts one site lower
WallFirstControlShort(n) == n - 2

\* the first control of a wall row: int j = nChromophores - 1
WallFirstControl(n) == n - 1

RECURSIVE WallRow(_, _, _)
\* for (j = ...; j > i; j--): control = j, target = i, CNOT
WallRow(c, i, j) ==
  IF j > i THEN WallRow(Append(c, CNOT(j, i)), i, j - 1) ELSE c

RECURSIVE Wall(_, _, _)
\* for (i = nChromophores - 2; i >= 0; i--): one row of the wall
Wall(c, i, n) ==
  IF i >= 0 THEN Wall(WallRow(c, i, WallFirstControl(n)), i - 1, n) ELSE c

\* MC_VQE::statePreparationCircuit(angles) for nChromophores = n: the Ry
\* "pump" on qubit 0, the Fy gates, the wall of CNOTs
statePreparationCircuit(n, angles) ==
  Wall(FyGates(<<Ry(0, Angle(angles[0], 2))>>, 1, n, angles), n - 2, n)

\* CISGateAngles.col(state): the angles of one reference state (symbolic)
AnglesOf(n, s) == [i \in 0..(n - 1) |-> <<i, s>>]

\* ======================================================================
\* MC_VQE::initialize and MC_VQE::preProcessing  (specification SpecSetup)
\* ======================================================================

\* largest nChromophores an initialize call supplies
MaxSites == 3

\* MC_VQE::requiredParameters
requiredParameters == {"optimizer", "accelerator", "nChromophores", "data-path"}
\* the optional keys of initialize that decide what it computes (log-level
\* and tnqvm-log change what is printed, gradient-strategy which gradient
\* service execute hands to the optimizer: their members are left alone here)
OptionalKeys == {"cyclic", "interference", "n-states"}

\* the values a call may give; "none", 0 and "" stand for an absent key
Optimizers == {"optimizer1"}
Accelerators == {"accelerator1"}
DataPaths == {"distinct.txt", "coincident.txt", "absent.txt"}

\* the HeterogeneousMap given to initialize: the keys it holds and their
\* values ("none", 0 and "" are the placeholders of an absent key)
HeterogeneousMap(has, o, a, n, d, c, i, s) ==
  [has |-> has,
   optimizer |-> IF "optimizer" \in has THEN o ELSE "none",
   accelerator |-> IF "accelerator" \in has THEN a ELSE "none",
   nChromophores |-> IF "nChromophores" \in has THEN n ELSE 0,
   dataPath |-> IF "data-path" \in has THEN d ELSE "",
   cyclic |-> IF "cyclic" \in has THEN c ELSE FALSE,
   interference |-> IF "interference" \in has THEN i ELSE FALSE,
   nStates |-> IF "n-states" \in has THEN s ELSE 0]

\* the maps that hold the four required keys, with every choice of the
\* optional keys and of the values
CompleteMaps ==
  {HeterogeneousMap(requiredParameters \cup opt, o, a, n, d, c, i, 1) :
     opt \in SUBSET OptionalKeys, o \in Optimizers, a \in Accelerators,
     n \in 1..MaxSites, d \in DataPaths, c \in BOOLEAN, i \in BOOLEAN}

\* the maps that lack a required key: every proper subset of the required
\* keys, with all optional keys given values that are not the defaults
IncompleteMaps ==
  {HeterogeneousMap(req \cup OptionalKeys, o, a, n, d, TRUE, FALSE, 1) :
     req \in (SUBSET requiredParameters) \ {requiredParameters},
     o \in Optimizers, a \in Accelerators, n \in {1, MaxSites},
     d \in {"distinct.txt"}}

ParameterMaps == CompleteMaps \cup IncompleteMaps

\* parameters.keyExists / pointerLikeExists / stringExists
keyExists(parameters, key) == key \in parameters.has

\* mutant of HasRequired: the data-path check is left out
HasRequiredButDataPath(parameters) ==
  /\ keyExists(parameters, "accelerator")
  /\ keyExists(parameters, "optimizer")
  /\ keyExists(parameters, "nChromophores")

\* the four checks at the top of initialize, each returning false
HasRequired(parameters) ==
  /\ keyExists(parameters, "accelerator")
  /\ keyExists(parameters, "optimizer")
  /\ keyExists(parameters, "nChromophores")
  /\ keyExists(parameters, "data-path")

\* ---- the data files
\* "absent.txt" (and the empty path) cannot be opened; the two other files
\* hold a well-formed record for every site
Readable(path) == path \in {"distinct.txt", "coincident.txt"}
\* the centre of mass of site A read from the file (one coordinate): all
\* different in "distinct.txt"; sites 0 and 1 coincide in "coincident.txt"
com(path, A) == IF path = "coincident.txt" /\ A = 1 THEN 0 ELSE A

\* std::ifstream file(dataPath): a failed open sets failbit
ifstream(path) == IF Readable(path) THEN {} ELSE {"failbit"}
\* std::ios::bad(): true if and only if badbit is set
bad(stream) == "badbit" \in stream
\* std::getline on a stream with failbit or badbit set extracts nothing and
\* leaves line empty; std::stod("") throws std::invalid_argument
stodThrows(stream) == stream # {}

\* ---- values: a double is kept as the sequence of its summands, each a
\* ---- coefficient c (in units of 1/2) times a symbolic term
Zero == <<>>
Summand(c, t) == <<[c |-> c, t |-> t]>>
Times(v, k) == [i \in DOMAIN v |-> [v[i] EXCEPT !.c = @ * k]]
\* 0.5 * v
HalfOf(v) == [i \in DOMAIN v |-> [v[i] EXCEPT !.c = @ \div 2]]

RECURSIVE SumAll(_)
\* the sum of a sequence of values
SumAll(vs) == IF vs = <<>> THEN Zero ELSE Head(vs) \o SumAll(Tail(vs))

RECURSIVE ApplyWrites(_, _)
\* the assignments M(cell) = value of a loop, applied in order
ApplyWrites(M, ws) ==
  IF ws = <<>> THEN M
  ELSE ApplyWrites([M EXCEPT ![Head(ws).cell] = Head(ws).value], Tail(ws))

\* the twoBodyH lambda: d_AB = r_AB.norm(), n_AB = r_AB / d_AB,
\* (mu_A.mu_B - 3 (mu_A.n_AB)(mu_B.n_AB)) / d_AB^3.  The value is symmetric
\* in (mu_A, mu_B) and in the sign of r_AB; it is NaN when d_AB = 0, and no
\* branch looks at d_AB
twoBodyH(mu_A, mu_B, r_AB) ==
  LET d_AB == IF r_AB < 0 THEN 0 - r_AB ELSE r_AB
  IN [mu |-> {mu_A, mu_B}, d |-> d_AB, nan |-> (d_AB = 0), garbage |-> FALSE]

\* what a read outside a vector or matrix yields when the build does not
\* check indices
Garbage == [mu |-> {}, d |-> 0, nan |-> FALSE, garbage |-> TRUE]
\* a one-site quantity read from the file, (energiesGS - energiesES) / 2
D_A(A) == [mu |-> {<<"D", A>>}, d |-> 0, nan |-> FALSE, garbage |-> FALSE]

\* the result of MC_VQE::preProcessing for the members nChromophores = n,
\* isCyclic = cyclic, dataPath = path; asserts tells whether the build
\* checks Eigen indices (eigen_assert) or not (NDEBUG)
preProcessing(n, cyclic, path, asserts) ==
  LET sites == 0..(n - 1)
      file == ifstream(path)
      p == NeighborPairs(n, cyclic)
      Seats(A) == 1..Len(p[A])
      \* twoBodyH(<kA>.row(A), <kB>.row(B), com.row(A) - com.row(B))
      Coupling(kA, A, kB, B) ==
        IF A \in sites /\ B \in sites
          THEN twoBodyH(<<kA, A>>, <<kB, B>>, com(path, A) - com(path, B))
          ELSE Garbage
      \* the entry (R, C) of XX_AB, XZ_AB, ZX_AB or ZZ_AB after the coupling
      \* loop: written for C in pairs[R], zero otherwise
      Entry(kA, kB, R, C) ==
        IF R \in sites /\ C \in sites
          THEN IF \E k \in Seats(R) : p[R][k] = C
                 THEN Summand(2, Coupling(kA, R, kB, C))
                 ELSE Zero
          ELSE Summand(2, Garbage)
      OverPairs(F(_, _), A) == SumAll([k \in Seats(A) |-> F(A, p[A][k])])
      OverSites(F(_)) == SumAll([i \in 1..n |-> F(i - 1)])
      \* E += 0.5 * twoBodyH(dipoleSum.row(A), dipoleSum.row(B), ...)
      EStep(A, B) == Summand(1, Coupling("Sum", A, "Sum", B))
      ERow(A) == OverPairs(EStep, A)
      EValue == OverSites(ERow)
      XStep(A, B) == Summand(1, Coupling("T", A, "Sum", B))
                       \o Summand(1, Coupling("Sum", B, "T", A))
      X_A(A) == OverPairs(XStep, A)
      ZStep(A, B) == Summand(1, Coupling("Sum", A, "Diff", B))
                       \o Summand(1, Coupling("Diff", B, "Sum", A))
      Z_A(A) == Summand(2, D_A(A)) \o OverPairs(ZStep, A)
      \* hamiltonian += PauliOperator(...), in the order of the loop
      PauliOperator(ops, coeff) == <<[ops |-> ops, coeff |-> coeff]>>
      HStep(A, B) ==
        PauliOperator(<<<<A, "X">>, <<B, "X">>>>, Entry("T", "T", A, B))
          \o PauliOperator(<<<<A, "X">>, <<B, "Z">>>>, Entry("T", "Diff", A, B))
          \o PauliOperator(<<<<A, "Z">>, <<B, "X">>>>, Entry("Diff", "T", A, B))
          \o PauliOperator(<<<<A, "Z">>, <<B, "Z">>>>, Entry("Diff", "Diff", A, B))
      HRow(A) == OverPairs(HStep, A)
                   \o PauliOperator(<<<<A, "Z">>>>, Z_A(A))
                   \o PauliOperator(<<<<A, "X">>>>, X_A(A))
      hamiltonian == OverSites(HRow) \o PauliOperator(<<>>, EValue)
      \* E_ref = E + Z_A.sum() + 0.5 * ZZ_AB.sum()
      ZZRow(R) == SumAll([i \in 1..n |-> Entry("Diff", "Diff", R, i - 1)])
      E_ref == EValue \o OverSites(Z_A) \o HalfOf(OverSites(ZZRow))
      \* CISMatrix(A + 1, A + 1)
      ZZStep(A, B) == Times(Entry("Diff", "Diff", A, B)
                              \o Entry("Diff", "Diff", B, A), 0 - 1)
      Single(A) == E_ref \o Times(Z_A(A), 0 - 2) \o OverPairs(ZZStep, A)
      \* CISMatrix(A + 1, 0)
      RefStep(A, B) == HalfOf(Entry("T", "Diff", A, B)
                                \o Entry("Diff", "T", B, A))
      RefSingle(A) == X_A(A) \o OverPairs(RefStep, A)
      \* CISMatrix.setZero(), then the writes up to line 883
      beforeSingles ==
        [rc \in (0..n) \X (0..n) |->
           IF rc = <<0, 0>> THEN E_ref
           ELSE IF rc[1] = rc[2] THEN Single(rc[1] - 1)
           ELSE IF rc[2] = 0 THEN RefSingle(rc[1] - 1)
           ELSE IF rc[1] = 0 THEN RefSingle(rc[2] - 1)
           ELSE Zero]
      \* the writes CISMatrix(A + 1, B + 1) = XX_AB(A, B), in loop order
      SinglesRow(A) ==
        [k \in Seats(A) |-> [cell |-> <<A + 1, p[A][k] + 1>>,
                              value |-> Entry("T", "T", A, p[A][k])]]
      singlesWrites == SumAll([i \in 1..n |-> SinglesRow(i - 1)])
      outOfRange == \E A \in sites : \E k \in Seats(A) : p[A][k] \notin sites
      zeroDistance == \E A \in sites : \E k \in Seats(A) :
                        /\ p[A][k] \in sites
                        /\ com(path, A) = com(path, p[A][k])
      started == [NoTrace EXCEPT !.opened = TRUE]
  IN IF bad(file)
       THEN \* xacc::error("Cannot access data file."); return;
            [outcome |-> "ok", pairs |-> <<>>, E |-> Zero,
             observable |-> <<>>, CISMatrix |-> <<>>, angles |-> FALSE,
             trace |-> [started EXCEPT !.errorReported = TRUE]]
     ELSE IF stodThrows(file)
       THEN \* the first std::stod of the parsing loop throws
            [outcome |-> "invalid_argument", pairs |-> <<>>, E |-> Zero,
             observable |-> <<>>, CISMatrix |-> <<>>, angles |-> FALSE,
             trace |-> [started EXCEPT !.parseAttempted = TRUE]]
     ELSE IF outOfRange /\ asserts
       THEN \* eigen_assert fails at the first row(B) outside the matrix
            [outcome |-> "assertion", pairs |-> p, E |-> Zero,
             observable |-> <<>>, CISMatrix |-> <<>>, angles |-> FALSE,
             trace |-> [started EXCEPT !.parseAttempted = TRUE, !.parsed = n,
                                       !.outOfRange = TRUE]]
     ELSE [outcome |-> "ok", pairs |-> p, E |-> EValue,
           observable |-> hamiltonian,
           CISMatrix |-> ApplyWrites(beforeSingles, singlesWrites),
           angles |-> TRUE,
           trace |-> [started EXCEPT !.parseAttempted = TRUE, !.parsed = n,
                                     !.outOfRange = outOfRange,
                                     !.zeroDistance = zeroDistance,
                                     !.built = TRUE,
                                     !.writes = [i \in DOMAIN singlesWrites |->
                                                   singlesWrites[i].cell]]]

\* preProcessing for every value of the members it reads
preProcessed ==
  [n \in 1..MaxSites, cyclic \in BOOLEAN, path \in DataPaths \cup {""},
   asserts \in BOOLEAN |-> preProcessing(n, cyclic, path, asserts)]

\* bool MC_VQE::initialize(const HeterogeneousMap &parameters), the whole
\* call with its preProcessing()
InitializeCall(parameters, asserts) ==
  \* a failed eigen_assert has ended the process
  /\ outcome # "assertion"
  \* no circuit has been built since this call
  /\ statePrep' = <<>>
  /\ IF ~ HasRequired(parameters)
       THEN \* return false
            /\ outcome' = "false"
            /\ given' = parameters.has \cap requiredParameters
            /\ trace' = NoTrace
            /\ UNCHANGED <<optimizer, accelerator, dataPath, observable,
                           CISGateAngles, CISMatrix, E>>
            /\ UNCHANGED <<nChromophores, isCyclic, pairs>>
            /\ UNCHANGED <<nStates, doInterference>>
       ELSE LET n == parameters.nChromophores
                cyclic == IF keyExists(parameters, "cyclic")
                            THEN parameters.cyclic ELSE FALSE
                pre == preProcessed[n, cyclic, parameters.dataPath, asserts]
                \* preProcessing returned, so initialize goes on
                returned == pre.outcome = "ok"
            IN /\ optimizer' = parameters.optimizer
               /\ accelerator' = parameters.accelerator
               /\ nChromophores' = n
               /\ dataPath' = parameters.dataPath
               /\ isCyclic' = cyclic
               /\ doInterference' = IF keyExists(parameters, "interference")
                                      THEN parameters.interference
                                      ELSE doInterference
               \* nStates = nChromophores + 1, then the n-states override
               /\ nStates' = IF returned /\ keyExists(parameters, "n-states")
                               THEN parameters.nStates ELSE n + 1
               \* CISGateAngles.resize(nChromophores, nStates), then
               \* statePreparationAngles at the end of preProcessing
               /\ CISGateAngles' = [rows |-> n, cols |-> n + 1,
                                    computed |-> pre.angles]
               /\ pairs' = pre.pairs
               /\ E' = pre.E
               /\ CISMatrix' = pre.CISMatrix
               /\ observable' = IF pre.trace.built THEN pre.observable
                                                   ELSE observable
               /\ outcome' = IF returned THEN "true" ELSE pre.outcome
               /\ given' = parameters.has
               /\ trace' = pre.trace
  /\ UNCHANGED <<cpc, entangler>>
  /\ UNCHANGED <<gradientStrategy, overload, pc, x, state, diagonal, averageEnergy,
                 oldAverageEnergy, entangledHamiltonian, result, stateA,
                 stateB, evals, interfEvals, written, nCalls, lastReturn,
                 decreasing, recorded>>

\* statePreparationCircuit(CISGateAngles.col(state)), as execute calls it
StatePreparationCircuitCall(s) ==
  /\ outcome = "true"
  /\ s \in 0..(nStates - 1)
  /\ statePrep' = [n |-> nChromophores, state |-> s,
                   circuit |-> statePreparationCircuit(nChromophores,
                                                       AnglesOf(nChromophores, s))]
  /\ UNCHANGED <<optimizer, accelerator, dataPath, observable, CISGateAngles,
                 CISMatrix, E, given, outcome, trace>>
  /\ UNCHANGED <<execVars, circVars>>

\* the algorithm object as constructed
InitSetup == ExecuteIdle /\ CircuitIdle /\ SetupIdle

NextSetup ==
  \/ \E parameters \in ParameterMaps, asserts \in BOOLEAN :
       InitializeCall(parameters, asserts)
  \/ \E s \in 0..MaxSites : StatePreparationCircuitCall(s)

SpecSetup == InitSetup /\ [][NextSetup]_vars

\* ======================================================================
\* Properties of execute (specification Spec)
\* ======================================================================

\* the optimizer-driven overload is between objective calls or past them
AtObjectiveReturn ==
  /\ overload = "optimize"
  /\ pc \in {"optimize", "interference", "done"}
  /\ nCalls >= 1

\* C1: when the averages returned by the objective calls so far are
\* strictly decreasing (from the very first call on), the diagonal of the
\* entangled-Hamiltonian equals the per-state energies of the last call,
\* which is the call with the lowest average.
C1_DecreasingRunKeepsLowestDiagonal ==
  (AtObjectiveReturn /\ decreasing) =>
    Diag(entangledHamiltonian) = diagonal

\* C2: a call whose average is not strictly lower than the lowest average
\* of the earlier calls that recorded a snapshot leaves the stored best
\* average and the diagonal unchanged, and the stored best average never
\* increases.
C2_NoRegression ==
  [][(pc = "objective" /\ pc' = "optimize") =>
       /\ (\E r \in recorded : ~RatLess(lastReturn', r)) =>
            /\ oldAverageEnergy' = oldAverageEnergy
            /\ Diag(entangledHamiltonian)' = Diag(entangledHamiltonian)
       /\ RatLeq(oldAverageEnergy', oldAverageEnergy)]_vars

\* C2 witness: the second call returned an average above the stored best,
\* which the first call had recorded.
C2_Witness ==
  /\ AtObjectiveReturn
  /\ pc = "optimize"
  /\ nCalls = 2
  /\ recorded # {}
  /\ RatLess(oldAverageEnergy, lastReturn)
  /\ Diag(entangledHamiltonian) # diagonal

\* C3: at the return of every objective call the stored best average and
\* the stored diagonal come from the same call: the diagonal entries sum to
\* nStates times the stored best average, and both are at their initial
\* zero values when no snapshot was recorded.
C3_BestAverageMatchesDiagonal ==
  AtObjectiveReturn =>
    /\ oldAverageEnergy[2] > 0
    /\ SumTo(Diag(entangledHamiltonian), nStates) * oldAverageEnergy[2]
         = nStates * oldAverageEnergy[1]
    /\ (recorded = {}) =>
         /\ oldAverageEnergy = InitialOldAverageEnergy
         /\ \A s \in States : entangledHamiltonian[<<s, s>>] = 0
    /\ (recorded # {}) => oldAverageEnergy \in recorded

\* C3 witness: two calls, each of which recorded a snapshot.
C3_Witness ==
  /\ AtObjectiveReturn
  /\ nCalls = 2
  /\ Cardinality(recorded) = 2
  /\ nStates >= 2

\* C4: the entangled-Hamiltonian is symmetric in every state of either
\* overload: before, after each completed pair step of, and after the
\* interference stage.
C4_Symmetric ==
  \A a \in States, b \in States :
    entangledHamiltonian[<<a, b>>] = entangledHamiltonian[<<b, a>>]

\* C4 witness: the fixed-parameter overload has completed the pair steps of
\* row 0 of three states and entry (0, 2) is not zero.
C4_Witness ==
  /\ overload = "fixed"
  /\ pc = "interference"
  /\ nStates = 3
  /\ stateA = 1
  /\ entangledHamiltonian[<<0, 2>>] # 0
  /\ entangledHamiltonian[<<2, 0>>] # 0

\* the unordered pairs of distinct reference states, as <<a, b>> with a < b
StatePairs == {p \in States \X States : p[1] < p[2]}

\* C5, in every state: the interference evaluations happen only when the
\* stage is enabled and after the optimizer returned, each with the vector
\* the optimizer returned; when the stage is over, every pair was evaluated
\* exactly once, plus then minus, and every off-diagonal entry was written.
C5_Stage ==
  overload = "optimize" =>
    /\ (interfEvals # <<>>) =>
         /\ doInterference
         /\ pc \in {"interference", "done"}
         /\ result \in Params
    /\ \A k \in 1..Len(interfEvals) : interfEvals[k].x = result
    /\ (pc = "done" /\ doInterference) =>
         /\ Len(interfEvals) = 2 * Cardinality(StatePairs)
         /\ \A p \in StatePairs :
              \E k \in 1..(Len(interfEvals) - 1) :
                /\ interfEvals[k].kernel = <<"plus", p[1], p[2]>>
                /\ interfEvals[k + 1].kernel = <<"minus", p[1], p[2]>>
         /\ written = {p \in States \X States : p[1] # p[2]}

\* C5, step by step: once the stage has started, neither the optimizer nor
\* the objective runs again.
C5_NoMoreOptimization ==
  [][(pc \in {"interference", "done"}) =>
       /\ pc' \in {"interference", "done"}
       /\ nCalls' = nCalls
       /\ evals' = evals
       /\ result' = result]_vars

\* C5: the interference stage starts only after the optimizer has returned,
\* visits every unordered pair of states exactly once with two backend
\* evaluations (plus, then minus) at the returned parameter vector, never
\* goes back to the optimizer or the objective, and leaves every
\* off-diagonal entry written.
C5_InterferenceStage == []C5_Stage /\ C5_NoMoreOptimization

\* C5 witness: the stage is over for three states, after at least one
\* objective call, the optimizer having returned a vector other than the
\* last one it tried.
C5_Witness ==
  /\ overload = "optimize"
  /\ pc = "done"
  /\ doInterference
  /\ nStates = 3
  /\ nCalls >= 1
  /\ result # x
  /\ Len(interfEvals) = 6

IsEnergyEvaluation(r) == r.kernel[1] = "cis"

\* C6: one objective call performs exactly one backend energy evaluation
\* per state, in increasing state order, all with the call's vector x, and
\* returns the sum of the per-state energies divided by nStates.
C6_ObjectiveEvaluations ==
  (AtObjectiveReturn /\ pc = "optimize") =>
    LET en == SelectSeq(evals, IsEnergyEvaluation)
    IN /\ Len(en) = nStates
       /\ \A s \in States : en[s + 1] = [kernel |-> <<"cis", s>>, x |-> x]
       /\ lastReturn[2] > 0
       /\ lastReturn[1] * nStates = SumTo(diagonal, nStates) * lastReturn[2]

\* C6 witness: a call over three states, with a gradient strategy, that
\* returned a non-zero average.
C6_Witness ==
  /\ AtObjectiveReturn
  /\ pc = "optimize"
  /\ nStates = 3
  /\ gradientStrategy
  /\ lastReturn[1] # 0

\* ======================================================================
\* Properties of the builders (specification SpecCircuit)
\* ======================================================================

\* the sites of the configured system
Sites == 0..(nChromophores - 1)
\* the neighbours listed for a site
Neighbors(site) == {pairs[site][k] : k \in 1..Len(pairs[site])}
\* the neighbours a chain or a ring gives a site
ChainNeighbors(site) == {site - 1, site + 1} \cap Sites
RingNeighbors(site) ==
  {(site + 1) % nChromophores, (site + nChromophores - 1) % nChromophores}

\* C7: for N >= 2 the neighbour list holds only sites, never the site
\* itself; in a chain the end sites have exactly one neighbour and the
\* interior sites their two adjacent ones; in a ring every site has its two
\* ring neighbours; and the relation is symmetric.
C7_NeighborTopology ==
  (cpc = "ready" /\ nChromophores >= 2) =>
    /\ \A site \in Sites :
         /\ Neighbors(site) \subseteq Sites
         /\ site \notin Neighbors(site)
         /\ isCyclic => Neighbors(site) = RingNeighbors(site)
         /\ ~isCyclic =>
              /\ Neighbors(site) = ChainNeighbors(site)
              /\ Len(pairs[site]) = Cardinality(ChainNeighbors(site))
    /\ \A a \in Sites, b \in Sites :
         (b \in Neighbors(a)) <=> (a \in Neighbors(b))

\* an entangler was built for n sites with the given topology
Built(n, cyclic) ==
  /\ entangler # <<>>
  /\ entangler.n = n
  /\ entangler.cyclic = cyclic

\* the CNOTs and the rotations of a circuit, as positions in it
CNOTsOf(c) == {k \in 1..Len(c.instructions) : c.instructions[k].gate = "CNOT"}
RysOf(c) == {k \in 1..Len(c.instructions) : c.instructions[k].gate = "Ry"}

\* C8 as claimed: for N = 4, linear, the entangler exposes 20 parameters.
C8_Linear4Has20Parameters ==
  Built(4, FALSE) => Len(entangler.circuit.variables) = 20

\* C8, amended: for N = 4, linear, the entangler exposes exactly
\* N + (2 + 1) * 4 = 16 trainable parameters: 4 single-site rotations, then
\* 2 blocks in the first layer and 1 block in the second, 4 parameters each.
C8_Linear4Has16Parameters ==
  Built(4, FALSE) =>
    /\ Len(entangler.circuit.variables) = 16
    /\ Cardinality(RysOf(entangler.circuit)) = 16
    /\ Cardinality(CNOTsOf(entangler.circuit)) = 2 * 3
    /\ \A k \in 1..4 : entangler.circuit.instructions[k] = Ry(k - 1, k - 1)

\* C8 witness: the entangler of 4 sites, linear, has been built.
C8_Witness == Built(4, FALSE) /\ cpc = "ready" /\ ~isCyclic

\* C9: for N >= 2 the cyclic entangler is the linear one followed by one
\* block with control N-1 and target 0, with 4 more parameters; and in any
\* entangler the parameter indices used are exactly 0..P-1, each by exactly
\* one rotation.
C9_CyclicExtraBlock ==
  (entangler # <<>> /\ entangler.n >= 2) =>
    LET n == entangler.n
        c == entangler.circuit
        P == Len(c.variables)
        lin == entanglerCircuit(n, FALSE)
        k == Len(lin.variables)
    IN /\ entangler.cyclic =>
            /\ c.instructions =
                 lin.instructions \o
                   <<CNOT(n - 1, 0), Ry(n - 1, k), Ry(0, k + 1),
                     CNOT(n - 1, 0), Ry(n - 1, k + 2), Ry(0, k + 3)>>
            /\ P = k + 4
       /\ ~entangler.cyclic => c = lin
       /\ c.variables = [j \in 1..P |-> j - 1]
       /\ Cardinality(RysOf(c)) = P
       /\ {c.instructions[j].param : j \in RysOf(c)} = 0..(P - 1)

\* C9 witness: the cyclic entangler of 4 sites has been built.
C9_Witness == Built(4, TRUE)

\* the site pairs of the blocks a layer emits for n sites
LayerBlocks(n, lay) ==
  LET c == LayerLoop(EmptyComposite, lay, lay, n)
  IN {c.instructions[k].qubits : k \in CNOTsOf(c)}

\* C10: for every N >= 2, odd or even, every block of the two layers acts
\* on adjacent sites i, i+1 within 0..N-1, the blocks of one layer are
\* pairwise disjoint, and every adjacent pair is covered by exactly one
\* block over the two layers.
C10_BrickWall ==
  (entangler # <<>> /\ entangler.n >= 2 /\ ~entangler.cyclic) =>
    LET n == entangler.n
        c == entangler.circuit
    IN /\ \A k \in CNOTsOf(c) :
            LET q == c.instructions[k].qubits
            IN q[2] = q[1] + 1 /\ q[1] \in 0..(n - 1) /\ q[2] \in 0..(n - 1)
       /\ \A lay \in {0, 1} : \A p \in LayerBlocks(n, lay), q \in LayerBlocks(n, lay) :
            p # q => {p[1], p[2]} \cap {q[1], q[2]} = {}
       /\ \A site \in 0..(n - 2) :
            /\ Cardinality({k \in CNOTsOf(c) :
                              c.instructions[k].qubits = <<site, site + 1>>})
                 = 2
            /\ Cardinality({lay \in {0, 1} :
                              <<site, site + 1>> \in LayerBlocks(n, lay)}) = 1

\* ======================================================================
\* Properties of initialize, preProcessing and statePreparationCircuit
\* (specification SpecSetup)
\* ======================================================================

\* the instructions after the pump and the Fy gates
WallOf(sp) == SubSeq(sp.circuit, 2 + 5 * (sp.n - 1), Len(sp.circuit))

\* C11: for every N >= 1 the final section of the state-preparation circuit
\* holds exactly one CNOT for each site pair i < j (N(N-1)/2 in all), the
\* higher index being the control, in decreasing order of the target and,
\* for one target, in decreasing order of the control; the whole circuit has
\* 1 + 5(N-1) + N(N-1)/2 instructions.
C11_StatePreparationWall ==
  statePrep # <<>> =>
    LET n == statePrep.n
        wall == WallOf(statePrep)
        control(k) == wall[k].qubits[1]
        target(k) == wall[k].qubits[2]
    IN /\ n >= 1
       /\ Len(statePrep.circuit) = 1 + 5 * (n - 1) + (n * (n - 1)) \div 2
       /\ Len(wall) = (n * (n - 1)) \div 2
       /\ \A k \in DOMAIN wall :
            /\ wall[k].gate = "CNOT"
            /\ 0 <= target(k) /\ target(k) < control(k) /\ control(k) <= n - 1
       /\ \A i, j \in 0..(n - 1) :
            i < j => Cardinality({k \in DOMAIN wall :
                                    wall[k].qubits = <<j, i>>}) = 1
       /\ \A k, l \in DOMAIN wall :
            k < l => \/ target(k) > target(l)
                     \/ target(k) = target(l) /\ control(k) > control(l)

\* a state-preparation circuit was built for the largest number of sites
C11_Witness ==
  /\ statePrep # <<>>
  /\ statePrep.n = MaxSites
  /\ Len(WallOf(statePrep)) >= 3

\* the last initialize call ran preProcessing to its end and returned true
Preprocessed ==
  /\ outcome = "true"
  /\ trace.built

\* C12: the CIS matrix built in preProcessing is symmetric for every N >= 2
\* and both topologies; whenever the singles-singles entry (A+1, B+1) is
\* written, (B+1, A+1) is written too, and no write targets a row or column
\* outside 0..N or an entry of row or column 0.
C12_CISMatrixSymmetric ==
  (Preprocessed /\ nChromophores >= 2) =>
    LET n == nChromophores
    IN /\ \A i, j \in 0..n : CISMatrix[<<i, j>>] = CISMatrix[<<j, i>>]
       /\ \A k \in DOMAIN trace.writes :
            LET cell == trace.writes[k]
            IN /\ cell[1] \in 1..n
               /\ cell[2] \in 1..n
               /\ \E l \in DOMAIN trace.writes :
                    trace.writes[l] = <<cell[2], cell[1]>>

\* the pairs {A, B} of sites that the topology couples: neighbours on the
\* chain, and the two ends as well on the ring
Coupled(A, B, n, cyclic) ==
  /\ A \in 0..(n - 1)
  /\ B \in 0..(n - 1)
  /\ A # B
  /\ \/ A - B = 1
     \/ B - A = 1
     \/ cyclic /\ {A, B} = {0, n - 1}

\* the weight, in halves, with which E holds the symmetric-dipole
\* contribution of the pair {A, B}
EWeight(A, B) ==
  LET hits == {k \in DOMAIN E : E[k].t.mu = {<<"Sum", A>>, <<"Sum", B>>}}
      c == [k \in 0..(Len(E) - 1) |-> IF k + 1 \in hits THEN E[k + 1].c ELSE 0]
  IN SumTo(c, Len(E))

\* C13: for every N >= 2 and both topologies, E holds the symmetric-dipole
\* contribution of each coupled pair {A, B} with total weight exactly 1 (two
\* halves), and nothing from a pair that is not coupled.
C13_EnergyOffsetCounting ==
  (Preprocessed /\ nChromophores >= 2) =>
    LET n == nChromophores
    IN /\ \A A, B \in 0..(n - 1) :
            A < B => EWeight(A, B) = IF Coupled(A, B, n, isCyclic) THEN 2 ELSE 0
       /\ \A k \in DOMAIN E :
            \E A, B \in 0..(n - 1) :
              /\ Coupled(A, B, n, isCyclic)
              /\ E[k].t.mu = {<<"Sum", A>>, <<"Sum", B>>}

\* a value holds a summand that came from a division by zero
HasNaN(v) == \E k \in DOMAIN v : v[k].t.nan

\* C14: whenever the coupling formula is evaluated for two sites at distance
\* zero, preProcessing ends in a fatal data error, and no Hamiltonian term or
\* CIS matrix entry is produced from a division by zero.
C14_DegenerateGeometry ==
  trace.zeroDistance =>
    /\ outcome = "data error"
    /\ \A k \in DOMAIN observable : ~HasNaN(observable[k].coeff)
    /\ \A cell \in DOMAIN CISMatrix : ~HasNaN(CISMatrix[cell])

\* the four names C15 lists
FourRequired == {"optimizer", "accelerator", "nChromophores", "data-path"}

\* initialize returned false exactly when a required key was absent
C15_FalseIffMissing ==
  outcome # "none" => ((outcome = "false") <=> ~(FourRequired \subseteq given))

\* a call that returns false opens no file, builds no Hamiltonian, no CIS
\* matrix, no angle and no circuit, and leaves the configured members alone
C15_RejectedCallChangesNothing ==
  (outcome' = "false") =>
    /\ UNCHANGED <<optimizer, accelerator, nChromophores, dataPath, isCyclic,
                   nStates, observable>>
    /\ UNCHANGED <<CISGateAngles, CISMatrix, E, pairs, entangler>>
    /\ ~trace'.opened
    /\ ~trace'.parseAttempted
    /\ ~trace'.built
    /\ statePrep' = <<>>

\* C15: initialize returns false if and only if at least one of optimizer,
\* accelerator, nChromophores, data-path is absent; it then returns before
\* reading the data file or building the Hamiltonian or a circuit and leaves
\* the optimizer, accelerator, site count, data path, topology flag, state
\* count and Hamiltonian unchanged; requiredParameters lists these four names.
C15_MissingRequiredOptions ==
  /\ requiredParameters = FourRequired
  /\ []C15_FalseIffMissing
  /\ [][C15_RejectedCallChangesNothing]_vars

\* a call lacking only the data path was rejected after an earlier call had
\* configured the object and built its Hamiltonian
C15_Witness ==
  /\ outcome = "false"
  /\ given = FourRequired \ {"data-path"}
  /\ optimizer # "none"
  /\ nChromophores = MaxSites
  /\ isCyclic
  /\ observable # <<>>

\* C16: when the data file named by data-path does not exist or cannot be
\* opened, preProcessing reports the error "Cannot access data file" and
\* stops before parsing a site record, building a Hamiltonian term or
\* computing an angle.
C16_UnreadableDataFile ==
  (trace.opened /\ ~Readable(dataPath)) =>
    /\ trace.errorReported
    /\ ~trace.parseAttempted
    /\ ~trace.built
    /\ ~CISGateAngles.computed

\* C17: for N = 2 sites, the linear topology and 3 reference states,
\* initialization completes without reaching an error or an out-of-range
\* access (and execute then terminates after 3k + 6 backend evaluations with
\* a symmetric 3x3 matrix and 3 sorted eigenvalues).
C17_TwoSiteChainInitializes ==
  (/\ FourRequired \subseteq given
   /\ "n-states" \notin given
   /\ nChromophores = 2
   /\ ~isCyclic
   /\ Readable(dataPath)) =>
    /\ outcome = "true"
    /\ nStates = 3
    /\ ~trace.outOfRange

\* C19: after any sequence of successful initialize calls, if the last call
\* gave no interference key the interference stage is enabled, if it gave no
\* cyclic key the topology is linear, and if it gave no n-states key
\* nStates = nChromophores + 1; values of earlier calls do not carry over.
C19_OptionDefaults ==
  outcome = "true" =>
    /\ "interference" \notin given => doInterference
    /\ "cyclic" \notin given => ~isCyclic
    /\ "n-states" \notin given => nStates = nChromophores + 1

\* ======================================================================
\* The diagonal at the diagonalization (specification Spec)
\* ======================================================================

\* C20: in the optimizer-driven execute, at the diagonalization the diagonal
\* of entangledHamiltonian holds the per-state energies evaluated at the
\* parameter vector the optimizer returned; in particular an optimizer that
\* evaluates the objective once, at x, and returns x yields the diagonal that
\* execute(buffer, x) writes, the energies of that evaluation.
C20_DiagonalOfReturnedParameters ==
  (/\ overload = "optimize"
   /\ pc = "done"
   /\ doInterference
   /\ nCalls = 1
   /\ result = x) =>
    Diag(entangledHamiltonian) = diagonal

====
